---- MODULE Spec2Model ----
(***************************************************************************)
(* The NFC access bot (src/bot.py): the nfc_keys / access_logs / users     *)
(* tables and the /start, /access, /gen and /revoke handlers, run as       *)
(* concurrent asyncio tasks.  Every `await` of a handler is a point where  *)
(* other handlers run; every SQL statement executes atomically (SQLite),   *)
(* and an UPDATE/INSERT becomes visible to the other connections at its    *)
(* commit.                                                                 *)
(***************************************************************************)
EXTENDS Integers, Sequences, FiniteSets, Bags, TLC

\* ---------------------------------------------------------------- bounds
\* Requests (handler invocations) started over the whole run.
MaxReq == 3
\* The wall clock runs from 0 to MaxClock ticks.
MaxClock == 1
\* Clock ticks in one second (so that a timestamp falls on a whole second,
\* where isoformat() prints no fraction, or inside one).
TicksPerSecond == 2

\* ------------------------------------------------------------- constants
\* Telegram identities sending commands; ADMINS is the configured set (of
\* one administrator, or of two where two /gen have to run concurrently).
Procs == {1, 2, 3}
ADMINS == {3}
TwoAdmins == {2, 3}
\* The identities that present codes (/start, /access).
Visitors == {1, 2}
\* The codes secrets.choice can draw (12 characters of A-Z0-9 in the code).
CodeSpace == {"A", "B"}
\* /start and /revoke arguments as received: any code, or nothing.
Args == CodeSpace \cup {""}
\* /gen arguments.
Amounts == {1, 2}
NoProduct == "NULL"
Products == {NoProduct, "P1"}
\* SQL NULL in assigned_user_id and in claimed_at.
None == 0
NullText == << >>

VARIABLES
    keys,         \* table nfc_keys: code -> row
    users,        \* table users: the user_ids present
    access_logs,  \* table access_logs: the bag of its rows' (user_id, code,
                  \* action, reason); the id and created_at columns are left out
    invites,      \* invite links created by the chat platform
    clock,        \* wall clock, in ticks: the last time now_utc() returned
    pc,           \* per identity: where its running handler is
    loc,          \* per identity: the handler's arguments and locals
    nreq,         \* requests started so far
    admins,       \* the ADMINS set as read from the environment at startup
    revoked_ok,   \* history: codes for which revoke_key has returned True
    owned_hist    \* history: the <<user, code>> such that the row of code has
                  \* had assigned_user_id = user while its status was claimed

vars == <<keys, users, access_logs, invites, clock, pc, loc, nreq, admins,
          revoked_ok, owned_hist>>

\* -------------------------------------------------------------- now_utc
Digit(n) == 48 + n

SixDigits(us) ==
    << Digit((us \div 100000) % 10), Digit((us \div 10000) % 10),
       Digit((us \div 1000) % 10), Digit((us \div 100) % 10),
       Digit((us \div 10) % 10), Digit(us % 10) >>

\* datetime.isoformat() of an aware UTC datetime, as a sequence of character
\* codes: the seconds field zero-padded to two digits, ".ffffff" only when
\* the microsecond is not 0, then "+00:00".  (The date and HH:MM: prefix is
\* the same for every timestamp of a run and is left out.)
isoformat(t) ==
    LET sec == t \div TicksPerSecond
        us  == (t % TicksPerSecond) * (1000000 \div TicksPerSecond)
    IN  << Digit((sec \div 10) % 10), Digit(sec % 10) >>
        \o (IF us = 0 THEN << >> ELSE << 46 >> \o SixDigits(us))
        \o << 43, 48, 48, 58, 48, 48 >>

\* now_utc(): the wall clock read at a step, any time from the last time
\* read on (clock keeps the last time read).
now_utc(t) ==
    /\ t \in clock..MaxClock
    /\ clock' = t

\* SQLite's BINARY collation on TEXT: memcmp, a proper prefix sorts first.
TextLess(a, b) ==
    \E i \in 1..(Len(b)) :
        /\ \A j \in 1..(i - 1) : j <= Len(a) /\ a[j] = b[j]
        /\ \/ i > Len(a)
           \/ i <= Len(a) /\ a[i] < b[i]

\* ------------------------------------------------------------ the tables
NewRow(product_id, created) ==
    [ product_id |-> product_id, assigned_user_id |-> None, status |-> "new",
      created_at |-> created, claimed_at |-> NullText ]

\* What fetchone() returns when no row matches.
NoRow ==
    [ product_id |-> NoProduct, assigned_user_id |-> None, status |-> "absent",
      created_at |-> NullText, claimed_at |-> NullText ]

LogEntry(user_id, code, action, reason) ==
    [ user_id |-> user_id, code |-> code, action |-> action, reason |-> reason ]

\* add_log: one INSERT into access_logs, committed.
add_log(user_id, code, action, reason) ==
    /\ access_logs' = access_logs (+) SetToBag({LogEntry(user_id, code, action, reason)})
    /\ loc' = [loc EXCEPT ![user_id].trail = Append(@, <<action, reason>>)]

\* upsert_user: the row of user_id exists afterwards.
upsert_user(user_id) == users' = users \cup {user_id}

\* The <<owner, code>> of the claimed rows of a table k.
Owned(k) ==
    { <<k[c].assigned_user_id, c>> :
        c \in { d \in DOMAIN k : k[d].status = "claimed"
                                  /\ k[d].assigned_user_id # None } }

\* get_key: the row of code, or none.
HasKey(code) == code \in DOMAIN keys

\* A handler's arguments and locals.  codes: the codes create_keys_batch
\* returned; why: the branch its decision took;
\* trail: the <<action, reason>> it has passed to add_log; post_revoke:
\* whether revoke_key had returned True for its code when it started;
\* post_grant: whether its sender had been granted its code when it started.
IdleLoc ==
    [ cmd |-> "none", code |-> "", amount |-> 0, product_id |-> NoProduct,
      codes |-> {}, why |-> "none", post_revoke |-> FALSE, post_grant |-> FALSE,
      trail |-> << >> ]

TypeOK ==
    /\ DOMAIN keys \subseteq CodeSpace
    /\ users \subseteq Procs
    /\ clock \in 0..MaxClock
    /\ nreq \in Nat
    /\ admins \subseteq Procs
    /\ revoked_ok \subseteq CodeSpace
    /\ owned_hist \subseteq (Procs \X CodeSpace)

\* The database file outlives the process (ensure_db creates only the tables
\* that are missing): the bot starts on the codes earlier /gen commands left,
\* none of them claimed yet.
InitWith(config) ==
    /\ \E S \in SUBSET CodeSpace :
          keys = [c \in S |-> NewRow(NoProduct, isoformat(0))]
    /\ admins = config
    /\ users = {}
    /\ access_logs = EmptyBag
    /\ invites = {}
    /\ clock = 0
    /\ pc = [p \in Procs |-> "idle"]
    /\ loc = [p \in Procs |-> IdleLoc]
    /\ nreq = 0
    /\ revoked_ok = {}
    /\ owned_hist = {}

Init == InitWith(ADMINS)

\* A handler's locals at its start.
Fresh(p, cmd, code) ==
    [ IdleLoc EXCEPT !.cmd = cmd, !.code = code,
                     !.post_revoke = (code \in revoked_ok),
                     !.post_grant = (<<p, code>> \in owned_hist) ]

Goto(p, label) == pc' = [pc EXCEPT ![p] = label]

\* The handler is over: the identity's next command starts a new one.
Return(p) ==
    /\ Goto(p, "idle")
    /\ loc' = [loc EXCEPT ![p] = IdleLoc]

\* ----------------------------------------------------- claim_key_for_user
\* claim_key_for_user without its closing comparison: a row owned by
\* someone else is written like an unowned one.
ClaimDecision_Overwrite(row, user_id) ==
    IF row = NoRow THEN "code_not_found"
    ELSE IF row.status = "revoked" THEN "code_revoked"
    ELSE IF row.assigned_user_id # user_id THEN "update"
    ELSE "granted"

\* claim_key_for_user without its test of the status.
ClaimDecision_IgnoreRevoked(row, user_id) ==
    IF row = NoRow THEN "code_not_found"
    ELSE IF row.assigned_user_id = None THEN "update"
    ELSE IF row.assigned_user_id = user_id THEN "granted"
    ELSE "owned_by_another"

\* claim_key_for_user returning True for every owned row.
ClaimDecision_AnyOwner(row, user_id) ==
    IF row = NoRow THEN "code_not_found"
    ELSE IF row.status = "revoked" THEN "code_revoked"
    ELSE IF row.assigned_user_id = None THEN "update"
    ELSE "granted"

\* The branch claim_key_for_user takes on the row its SELECT returned
\* (NoRow: fetchone() gave None): "update" writes the owner, "granted" and the
\* rejections return without writing.
ClaimDecision(row, user_id) ==
    IF row = NoRow THEN "code_not_found"
    ELSE IF row.status = "revoked" THEN "code_revoked"
    ELSE IF row.assigned_user_id = None THEN "update"
    ELSE IF row.assigned_user_id = user_id THEN "granted"
    ELSE "owned_by_another"

\* The claim's UPDATE without claimed_at.
ClaimedRow_NoTimestamp(row, user_id, now) ==
    [ row EXCEPT !.assigned_user_id = user_id, !.status = "claimed" ]

\* UPDATE nfc_keys SET assigned_user_id=?, status='claimed', claimed_at=?
ClaimedRow(row, user_id, now) ==
    [ row EXCEPT !.assigned_user_id = user_id, !.status = "claimed",
                 !.claimed_at = isoformat(now) ]

\* revoke_key whose UPDATE also clears the owner.
RevokedRow_ClearsOwner(row) ==
    [ row EXCEPT !.status = "revoked", !.assigned_user_id = None ]

\* revoke_key whose UPDATE changes nothing.
RevokedRow_Noop(row) == row

\* UPDATE nfc_keys SET status='revoked'
RevokedRow(row) == [ row EXCEPT !.status = "revoked" ]

RowOf(code) == IF HasKey(code) THEN keys[code] ELSE NoRow

\* --------------------------------------------------------------- /start
\* cmd_start up to its first await after upsert_user: with no argument it
\* only answers.
cmd_start(p, code) ==
    /\ pc[p] = "idle"
    /\ nreq' = nreq + 1
    /\ upsert_user(p)
    /\ loc' = [loc EXCEPT ![p] = Fresh(p, "start", code)]
    /\ Goto(p, IF code = "" THEN "answer" ELSE "log_attempt")
    /\ UNCHANGED <<keys, access_logs, invites, clock, revoked_ok, owned_hist, admins>>

cmd_start_log_attempt(p) ==
    /\ pc[p] = "log_attempt"
    /\ add_log(p, loc[p].code, "attempt", "start_param")
    /\ Goto(p, "get_key")
    /\ UNCHANGED <<keys, users, invites, clock, nreq, revoked_ok, owned_hist, admins>>

\* row = await get_key(code) and the two tests on it.
cmd_start_get_key(p) ==
    /\ pc[p] = "get_key"
    /\ LET row == RowOf(loc[p].code) IN
        IF row = NoRow
        THEN /\ Goto(p, "log_not_found")
             /\ loc' = [loc EXCEPT ![p].why = "code_not_found"]
        ELSE IF row.status = "revoked"
        THEN /\ Goto(p, "log_revoked")
             /\ loc' = [loc EXCEPT ![p].why = "code_revoked"]
        ELSE /\ Goto(p, "claim_select")
             /\ UNCHANGED loc
    /\ UNCHANGED <<keys, users, access_logs, invites, clock, nreq,
                   revoked_ok, owned_hist, admins>>

\* The not-found branch logging the reason of another branch.
cmd_start_not_found_OtherReason(p) ==
    /\ pc[p] = "log_not_found"
    /\ add_log(p, loc[p].code, "rejected", "owned_by_another")
    /\ Goto(p, "answer")
    /\ UNCHANGED <<keys, users, invites, clock, nreq, revoked_ok, owned_hist, admins>>

cmd_start_not_found(p) ==
    /\ pc[p] = "log_not_found"
    /\ add_log(p, loc[p].code, "rejected", "code_not_found")
    /\ Goto(p, "answer")
    /\ UNCHANGED <<keys, users, invites, clock, nreq, revoked_ok, owned_hist, admins>>

cmd_start_revoked(p) ==
    /\ pc[p] = "log_revoked"
    /\ add_log(p, loc[p].code, "rejected", "code_revoked")
    /\ Goto(p, "answer")
    /\ UNCHANGED <<keys, users, invites, clock, nreq, revoked_ok, owned_hist, admins>>

\* claim_key_for_user: the SELECT and the branch on its row.  loc.why keeps
\* which branch returned (the function itself returns only a bool).
claim_key_for_user_select(p) ==
    /\ pc[p] = "claim_select"
    /\ LET d == ClaimDecision(RowOf(loc[p].code), p) IN
        /\ Goto(p, CASE d = "update"  -> "claim_update"
                     [] d = "granted" -> "invite"
                     [] OTHER         -> "log_owned")
        /\ loc' = [loc EXCEPT ![p].why = d]
    /\ UNCHANGED <<keys, users, access_logs, invites, clock, nreq,
                   revoked_ok, owned_hist, admins>>

\* claim_key_for_user: the UPDATE and its commit; returns True.
claim_key_for_user_update(p) ==
    /\ pc[p] = "claim_update"
    /\ \E now \in 0..MaxClock :
        LET code == loc[p].code IN
        /\ now_utc(now)
        /\ keys' = [keys EXCEPT ![code] = ClaimedRow(keys[code], p, now)]
        /\ owned_hist' = owned_hist \cup Owned(keys')
    /\ loc' = [loc EXCEPT ![p].why = "granted"]
    /\ Goto(p, "invite")
    /\ UNCHANGED <<users, access_logs, invites, nreq, revoked_ok, admins>>

\* if not ok: the one rejection logged for every False of claim_key_for_user.
cmd_start_not_ok(p) ==
    /\ pc[p] = "log_owned"
    /\ add_log(p, loc[p].code, "rejected", "owned_by_another")
    /\ Goto(p, "answer")
    /\ UNCHANGED <<keys, users, invites, clock, nreq, revoked_ok, owned_hist, admins>>

Invite(user_id, code, flow) == [ user_id |-> user_id, code |-> code, flow |-> flow ]

\* bot.create_chat_invite_link returns a link ...
cmd_start_invite(p) ==
    /\ pc[p] = "invite" /\ loc[p].cmd = "start"
    /\ invites' = invites \cup {Invite(p, loc[p].code, "start_flow")}
    /\ Goto(p, "log_invite")
    /\ UNCHANGED <<keys, users, access_logs, clock, loc, nreq, revoked_ok, owned_hist, admins>>

\* ... or raises (network, permission): the exception leaves the handler.
cmd_start_invite_fails(p) ==
    /\ pc[p] = "invite" /\ loc[p].cmd = "start"
    /\ Goto(p, "raised")
    /\ UNCHANGED <<keys, users, access_logs, invites, clock, loc, nreq,
                   revoked_ok, owned_hist, admins>>

cmd_start_log_invite(p) ==
    /\ pc[p] = "log_invite" /\ loc[p].cmd = "start"
    /\ add_log(p, loc[p].code, "invite_created", "start_flow")
    /\ Goto(p, "answer")
    /\ UNCHANGED <<keys, users, invites, clock, nreq, revoked_ok, owned_hist, admins>>

\* The closing message.answer(...) of every handler.
answer(p) ==
    /\ pc[p] = "answer"
    /\ Return(p)
    /\ UNCHANGED <<keys, users, access_logs, invites, clock, nreq,
                   revoked_ok, owned_hist, admins>>

\* An exception left the handler; the dispatcher logs it and goes on.
raised(p) ==
    /\ pc[p] = "raised"
    /\ Return(p)
    /\ UNCHANGED <<keys, users, access_logs, invites, clock, nreq,
                   revoked_ok, owned_hist, admins>>

\* -------------------------------------------------------------- /access
\* The /access query without "AND status='claimed'".
ClaimedBy_AnyStatus(user_id) ==
    { c \in DOMAIN keys : keys[c].assigned_user_id = user_id }

\* The rows "WHERE assigned_user_id=? AND status='claimed'".
ClaimedBy(user_id) ==
    { c \in DOMAIN keys :
        keys[c].assigned_user_id = user_id /\ keys[c].status = "claimed" }

\* "ORDER BY claimed_at DESC LIMIT 1": a row no other row sorts after (which
\* one of several equal claimed_at is the engine's choice).
LatestClaim(user_id) ==
    { c \in ClaimedBy(user_id) :
        \A d \in ClaimedBy(user_id) :
            ~ TextLess(keys[c].claimed_at, keys[d].claimed_at) }

cmd_access(p) ==
    /\ pc[p] = "idle"
    /\ nreq' = nreq + 1
    /\ upsert_user(p)
    /\ loc' = [loc EXCEPT ![p] = Fresh(p, "access", "")]
    /\ Goto(p, "access_select")
    /\ UNCHANGED <<keys, access_logs, invites, clock, revoked_ok, owned_hist, admins>>

cmd_access_select(p) ==
    /\ pc[p] = "access_select"
    /\ IF LatestClaim(p) = {}
       THEN /\ Goto(p, "answer")
            /\ loc' = [loc EXCEPT ![p].why = "code_not_found"]
       ELSE \E c \in LatestClaim(p) :
            /\ Goto(p, "invite")
            /\ loc' = [loc EXCEPT ![p].code = c, ![p].why = "found"]
    /\ UNCHANGED <<keys, users, access_logs, invites, clock, nreq,
                   revoked_ok, owned_hist, admins>>

cmd_access_invite(p) ==
    /\ pc[p] = "invite" /\ loc[p].cmd = "access"
    /\ invites' = invites \cup {Invite(p, loc[p].code, "access_cmd")}
    /\ Goto(p, "log_invite")
    /\ UNCHANGED <<keys, users, access_logs, clock, loc, nreq, revoked_ok, owned_hist, admins>>

cmd_access_invite_fails(p) ==
    /\ pc[p] = "invite" /\ loc[p].cmd = "access"
    /\ Goto(p, "raised")
    /\ UNCHANGED <<keys, users, access_logs, invites, clock, loc, nreq,
                   revoked_ok, owned_hist, admins>>

cmd_access_log_invite(p) ==
    /\ pc[p] = "log_invite" /\ loc[p].cmd = "access"
    /\ add_log(p, loc[p].code, "invite_created", "access_cmd")
    /\ Goto(p, "answer")
    /\ UNCHANGED <<keys, users, invites, clock, nreq, revoked_ok, owned_hist, admins>>

\* ---------------------------------------------------------- admin: /gen
is_admin_Everyone(user_id) == user_id \in Procs

is_admin(user_id) == user_id \in admins

\* cmd_gen up to create_keys_batch's first "SELECT 1 FROM nfc_keys WHERE
\* code=?": the first code drawn that the SELECT does not find (a code it
\* finds is drawn again).
cmd_gen(p, amount, product_id) ==
    /\ pc[p] = "idle"
    /\ nreq' = nreq + 1
    /\ IF ~ is_admin(p)
       THEN /\ loc' = [loc EXCEPT ![p] = Fresh(p, "gen", "")]
            /\ Goto(p, "answer")
       ELSE \E code \in CodeSpace :
            /\ ~ HasKey(code)
            /\ loc' = [loc EXCEPT ![p] =
                         [ Fresh(p, "gen", code) EXCEPT
                             !.amount = amount, !.product_id = product_id ]]
            /\ Goto(p, "gen_insert")
    /\ UNCHANGED <<keys, users, access_logs, invites, clock, revoked_ok, owned_hist, admins>>

\* The sets of n codes the rest of the loop can draw after the first.
Batches(first, n) ==
    { S \in SUBSET CodeSpace :
        first \in S /\ Cardinality(S) = n /\ \A c \in S \ {first} : ~ HasKey(c) }

\* create_keys_batch from its first INSERT to its commit.  The INSERT opens
\* the connection's write transaction, which keeps every other writer out
\* until the commit, and the loop's later SELECTs run inside it; the rows
\* become visible to the other connections together, at the commit.  The
\* INSERT of a code that was stored meanwhile violates the PRIMARY KEY and
\* raises.
create_keys_batch(p) ==
    /\ pc[p] = "gen_insert"
    /\ IF HasKey(loc[p].code)
       THEN /\ Goto(p, "raised")
            /\ UNCHANGED <<keys, loc, clock, owned_hist, admins>>
       ELSE \E S \in Batches(loc[p].code, loc[p].amount), now \in 0..MaxClock :
            /\ now_utc(now)
            /\ keys' = [ c \in DOMAIN keys \cup S |->
                           IF c \in S
                           THEN NewRow(loc[p].product_id, isoformat(now))
                           ELSE keys[c] ]
            /\ owned_hist' = owned_hist \cup Owned(keys')
            /\ Goto(p, "answer")
            /\ loc' = [loc EXCEPT ![p].codes = S]
    /\ UNCHANGED <<users, access_logs, invites, nreq, revoked_ok, admins>>

\* ------------------------------------------------------- admin: /revoke
cmd_revoke(p, code) ==
    /\ pc[p] = "idle"
    /\ nreq' = nreq + 1
    /\ loc' = [loc EXCEPT ![p] = Fresh(p, "revoke", code)]
    /\ Goto(p, IF is_admin(p) /\ code # "" THEN "revoke_select" ELSE "answer")
    /\ UNCHANGED <<keys, users, access_logs, invites, clock, revoked_ok, owned_hist, admins>>

\* revoke_key: the SELECT; no row returns False.
revoke_key_select(p) ==
    /\ pc[p] = "revoke_select"
    /\ IF RowOf(loc[p].code) = NoRow
       THEN /\ Goto(p, "answer")
            /\ loc' = [loc EXCEPT ![p].why = "code_not_found"]
       ELSE /\ Goto(p, "revoke_update")
            /\ UNCHANGED loc
    /\ UNCHANGED <<keys, users, access_logs, invites, clock, nreq,
                   revoked_ok, owned_hist, admins>>

\* revoke_key whose UPDATE has no WHERE code=?.
revoke_key_update_EveryRow(p) ==
    /\ pc[p] = "revoke_update"
    /\ keys' = [c \in DOMAIN keys |-> RevokedRow(keys[c])]
    /\ revoked_ok' = revoked_ok \cup {loc[p].code}
    /\ owned_hist' = owned_hist \cup Owned(keys')
    /\ loc' = [loc EXCEPT ![p].why = "revoked"]
    /\ Goto(p, "answer")
    /\ UNCHANGED <<users, access_logs, invites, clock, nreq, admins>>

\* revoke_key: the UPDATE and its commit; returns True.
revoke_key_update(p) ==
    /\ pc[p] = "revoke_update"
    /\ LET code == loc[p].code IN
        /\ keys' = [keys EXCEPT ![code] = RevokedRow(keys[code])]
        /\ revoked_ok' = revoked_ok \cup {code}
    /\ owned_hist' = owned_hist \cup Owned(keys')
    /\ loc' = [loc EXCEPT ![p].why = "revoked"]
    /\ Goto(p, "answer")
    /\ UNCHANGED <<users, access_logs, invites, clock, nreq, admins>>

\* ------------------------------------------------------------------ Next
\* The handlers' steps after their start.
UserSteps(p) ==
    \/ cmd_start_log_attempt(p)
    \/ cmd_start_get_key(p)
    \/ cmd_start_not_found(p)
    \/ cmd_start_revoked(p)
    \/ claim_key_for_user_select(p)
    \/ claim_key_for_user_update(p)
    \/ cmd_start_not_ok(p)
    \/ cmd_start_invite(p)
    \/ cmd_start_invite_fails(p)
    \/ cmd_start_log_invite(p)
    \/ cmd_access_select(p)
    \/ cmd_access_invite(p)
    \/ cmd_access_invite_fails(p)
    \/ cmd_access_log_invite(p)

RevokeSteps(p) ==
    \/ revoke_key_select(p)
    \/ revoke_key_update(p)

EndSteps(p) ==
    \/ answer(p)
    \/ raised(p)

Steps(p) ==
    \/ UserSteps(p)
    \/ create_keys_batch(p)
    \/ RevokeSteps(p)
    \/ EndSteps(p)

\* Commands arrive while the request budget lasts.
Budget == nreq < MaxReq

Next ==
    \/ \E p \in Visitors :
        \/ \E code \in Args : Budget /\ cmd_start(p, code)
        \/ Budget /\ cmd_access(p)
    \/ \E p \in Procs :
        \/ \E amount \in Amounts, product_id \in Products :
              Budget /\ cmd_gen(p, amount, product_id)
        \/ \E code \in Args : Budget /\ cmd_revoke(p, code)
        \/ Steps(p)

Spec == Init /\ [][Next]_vars

\* ------------------------------------------------- the scenario of section 8
\* One command after the other, each handler run to its end before the next
\* command arrives: the store holds the fresh code "A" and no code "B".
Script ==
    << [cmd |-> "start",  p |-> 1, code |-> "A"],
       [cmd |-> "start",  p |-> 2, code |-> "A"],
       [cmd |-> "start",  p |-> 1, code |-> "A"],
       [cmd |-> "access", p |-> 1, code |-> ""],
       [cmd |-> "revoke", p |-> 3, code |-> "A"],
       [cmd |-> "start",  p |-> 1, code |-> "A"],
       [cmd |-> "start",  p |-> 1, code |-> "B"],
       [cmd |-> "access", p |-> 1, code |-> ""],
       [cmd |-> "access", p |-> 2, code |-> ""] >>

AllIdle == \A p \in Procs : pc[p] = "idle"

ScenarioInit ==
    /\ InitWith(ADMINS)
    /\ DOMAIN keys = {"A"}

ScenarioNext ==
    \/ /\ AllIdle
       /\ nreq < Len(Script)
       /\ LET s == Script[nreq + 1] IN
            \/ s.cmd = "start" /\ cmd_start(s.p, s.code)
            \/ s.cmd = "access" /\ cmd_access(s.p)
            \/ s.cmd = "revoke" /\ cmd_revoke(s.p, s.code)
    \/ \E p \in Procs :
        \/ UserSteps(p)
        \/ RevokeSteps(p)
        \/ EndSteps(p)

SpecScenario == ScenarioInit /\ [][ScenarioNext]_vars

\* ------------------------------------------- several generators at once
\* ADMIN_IDS lists two identities, and both send /gen.
GenNext ==
    \E p \in TwoAdmins :
        \/ \E amount \in Amounts, product_id \in Products :
              Budget /\ cmd_gen(p, amount, product_id)
        \/ create_keys_batch(p)
        \/ EndSteps(p)

SpecGen == InitWith(TwoAdmins) /\ [][GenNext]_vars

\* ================================================================ claims
StartAttempt(p) == loc[p].cmd = "start" /\ loc[p].code # ""

\* A /start attempt is over: it is at its closing answer, or an exception
\* has left it.
AttemptOver(p) == StartAttempt(p) /\ pc[p] \in {"answer", "raised"}

\* C1. At most one owner: once a row's assigned_user_id is set, no step
\* writes a different identity into it.
C1_AtMostOneOwner ==
    [][ \A c \in DOMAIN keys :
          keys[c].assigned_user_id # None
            => keys'[c].assigned_user_id = keys[c].assigned_user_id ]_vars

\* C2. A row's status changes only new -> claimed or (new | claimed) ->
\* revoked; nothing leaves revoked.
C2_StatusTransitions ==
    [][ \A c \in DOMAIN keys :
          \/ keys'[c].status = keys[c].status
          \/ keys[c].status = "new" /\ keys'[c].status = "claimed"
          \/ keys[c].status \in {"new", "claimed"} /\ keys'[c].status = "revoked"
      ]_vars

\* C3. Revocation is terminal: a /start attempt on a code that began after
\* revoke_key returned True for that code never reaches invite issuance.
C3_RevocationTerminal ==
    \A p \in Visitors :
        StartAttempt(p) /\ loc[p].post_revoke
          => pc[p] \notin {"invite", "log_invite"} /\ loc[p].why # "granted"

\* C4. Idempotent re-claim: a /start attempt on a code that began after its
\* sender had been granted that code writes nothing and is rejected only
\* as revoked.
C4_IdempotentReclaim ==
    \A p \in Visitors :
        StartAttempt(p) /\ loc[p].post_grant
          => /\ pc[p] # "claim_update"
             /\ loc[p].why \in {"none", "granted", "code_revoked"}

\* The audit reason that names a decision.
ReasonOf(why) == IF why = "granted" THEN "start_flow" ELSE why

\* C5. Audit completeness: when a /start attempt is over, it has logged an
\* entry whose reason is the reason of the decision it took.
C5_AuditCompleteness ==
    \A p \in Visitors :
        AttemptOver(p)
          => \E i \in 1..Len(loc[p].trail) :
                loc[p].trail[i][2] = ReasonOf(loc[p].why)

\* C6. A /start attempt whose claim_key_for_user finds the row owned by
\* another identity and not revoked is rejected as owned_by_another, logs
\* that rejection, and writes nothing to nfc_keys.
C6_OwnedByOtherRejected ==
    [][ \A p \in Visitors :
          /\ ( /\ pc[p] = "claim_select"
               /\ pc'[p] # "claim_select"
               /\ HasKey(loc[p].code)
               /\ keys[loc[p].code].status # "revoked"
               /\ keys[loc[p].code].assigned_user_id \notin {None, p} )
             => /\ pc'[p] = "log_owned"
                /\ loc'[p].why = "owned_by_another"
                /\ keys' = keys
          /\ ( /\ pc[p] = "log_owned"
               /\ loc[p].why = "owned_by_another"
               /\ pc'[p] # "log_owned" )
             => /\ pc'[p] = "answer"
                /\ loc'[p].trail = Append(loc[p].trail, <<"rejected", "owned_by_another">>)
                /\ keys' = keys
      ]_vars

C6_Witness ==
    \E p \in Visitors :
        /\ StartAttempt(p) /\ pc[p] = "answer"
        /\ loc[p].why = "owned_by_another"
        /\ keys[loc[p].code].status = "claimed"
        /\ keys[loc[p].code].assigned_user_id \notin {None, p}
        /\ loc[p].trail = << <<"attempt", "start_param">>,
                             <<"rejected", "owned_by_another">> >>

\* C7. Issuer failure does not undo a claim: when create_chat_invite_link
\* has raised in a granted /start attempt and the code was never revoked,
\* the row has assigned_user_id = requester and status claimed, and the
\* /access query of the requester finds a code.
C7_IssuerFailureKeepsClaim ==
    \A p \in Visitors :
        ( /\ StartAttempt(p) /\ pc[p] = "raised"
          /\ loc[p].code \notin revoked_ok )
          => /\ keys[loc[p].code].assigned_user_id = p
             /\ keys[loc[p].code].status = "claimed"
             /\ \E c \in DOMAIN keys :
                   keys[c].assigned_user_id = p /\ keys[c].status = "claimed"

\* C8. An invite is issued only after a successful claim: every invite
\* created for user U with code c follows a state where c's row had
\* assigned_user_id = U and status claimed, and a handler at invite issuance
\* was granted its claim (/start) or found its code (/access).
C8_InviteOnlyAfterClaim ==
    /\ \A inv \in invites : <<inv.user_id, inv.code>> \in owned_hist
    /\ \A p \in Visitors :
          pc[p] \in {"invite", "log_invite"}
            => /\ loc[p].why \in {"granted", "found"}
               /\ <<p, loc[p].code>> \in owned_hist

C8_Witness ==
    /\ \E inv \in invites : inv.flow = "start_flow"
    /\ \E inv \in invites : inv.flow = "access_cmd"
    /\ \E p \in Visitors : AttemptOver(p) /\ loc[p].why = "owned_by_another"

CountIn(trail, actions) ==
    Cardinality({ i \in 1..Len(trail) : trail[i][1] \in actions })

\* C9. Every /start attempt that is over has logged exactly one entry with
\* action attempt and exactly one with action granted or rejected.
C9_OneAttemptOneDecision ==
    \A p \in Visitors :
        AttemptOver(p)
          => /\ CountIn(loc[p].trail, {"attempt"}) = 1
             /\ CountIn(loc[p].trail, {"granted", "rejected"}) = 1

\* The time a stored timestamp denotes.
ParseIso(text) == CHOOSE t \in 0..MaxClock : isoformat(t) = text

\* C10. The /access query returns a code whose row has status claimed and
\* assigned_user_id = the sender and whose claimed_at is the latest among
\* such rows, finds nothing exactly when there is no such row, and writes
\* nothing to nfc_keys.
C10_LatestClaim ==
    [][ \A p \in Visitors :
          ( pc[p] = "access_select" /\ pc'[p] # "access_select" )
            => LET mine == { c \in DOMAIN keys :
                               /\ keys[c].assigned_user_id = p
                               /\ keys[c].status = "claimed" }
               IN  /\ keys' = keys
                   /\ IF mine = {}
                      THEN pc'[p] = "answer"
                      ELSE /\ pc'[p] = "invite"
                           /\ loc'[p].code \in mine
                           /\ \A d \in mine :
                                 ParseIso(keys[d].claimed_at)
                                   <= ParseIso(keys[loc'[p].code].claimed_at)
      ]_vars

C10_Witness ==
    \E p \in Visitors :
        /\ loc[p].cmd = "access" /\ pc[p] = "invite"
        /\ \E d \in DOMAIN keys :
              /\ d # loc[p].code
              /\ keys[d].assigned_user_id = p /\ keys[d].status = "claimed"
              /\ ParseIso(keys[d].claimed_at)
                   < ParseIso(keys[loc[p].code].claimed_at)

\* The decision of the handler of the scenario's k-th command, once taken.
Decided(k) ==
    /\ nreq = k
    /\ loc[Script[k].p].cmd = Script[k].cmd
    /\ loc[Script[k].p].why \notin {"none", "update"}

WhyOf(k) == loc[Script[k].p].why

\* C11 as stated. After the scenario (1 granted, 2 rejected, 1 granted, "A"
\* revoked, 1 rejected as revoked), the /access query of 1 returns "A", and
\* the query of 2, who owns nothing, finds nothing.
C11_ScenarioReturnsCode ==
    /\ Decided(8) => WhyOf(8) = "found" /\ loc[1].code = "A"
    /\ Decided(9) => WhyOf(9) = "code_not_found"

\* C11 as amended. The scenario's outcomes are 1 granted, 2 rejected as owned
\* by another, 1 granted again, revoke succeeds, 1 rejected as revoked, "B"
\* not found; the /access query of 1 returns "A" before the revoke and
\* finds nothing after it; the query of 2 finds nothing.
C11_ScenarioRevokedNotFound ==
    /\ Decided(1) => WhyOf(1) = "granted"
    /\ Decided(2) => WhyOf(2) = "owned_by_another"
    /\ Decided(3) => WhyOf(3) = "granted"
    /\ Decided(4) => WhyOf(4) = "found" /\ loc[1].code = "A"
    /\ Decided(5) => WhyOf(5) = "revoked"
    /\ Decided(6) => WhyOf(6) = "code_revoked"
    /\ Decided(7) => WhyOf(7) = "code_not_found"
    /\ Decided(8) => WhyOf(8) = "code_not_found"
    /\ Decided(9) => WhyOf(9) = "code_not_found"

C11_Witness ==
    /\ Decided(8)
    /\ pc[1] = "answer"
    /\ keys["A"].status = "revoked"
    /\ keys["A"].assigned_user_id = 1
    /\ \E inv \in invites : inv.flow = "access_cmd" /\ inv.code = "A"

\* C12. Every create_keys_batch call, also with another one running, ends
\* returning exactly `amount` codes, none of them stored before, each stored
\* with status new and no owner; it never ends in an exception.
C12_GenerateUnique ==
    [][ \A p \in Procs :
          (pc[p] = "gen_insert" /\ pc'[p] # "gen_insert") =>
             /\ pc'[p] = "answer"
             /\ Cardinality(loc'[p].codes) = loc[p].amount
             /\ \A c \in loc'[p].codes :
                  /\ ~ HasKey(c)
                  /\ keys'[c].status = "new"
                  /\ keys'[c].assigned_user_id = None ]_vars

\* The step of process p that leaves the label.
Leaves(p, label) == pc[p] = label /\ pc'[p] # label

\* C13. revoke_key on a stored code returns True and its UPDATE sets the
\* row's status to revoked whatever it was, leaving owner, claimed_at,
\* product_id and created_at as they were; on a code with no row it returns
\* False (the answer is "not found") and nfc_keys is unchanged.
C13_RevokeFrame ==
    [][ \A p \in Procs :
          LET code == loc[p].code IN
          /\ Leaves(p, "revoke_select") =>
               /\ keys' = keys
               /\ IF HasKey(code)
                  THEN pc'[p] = "revoke_update"
                  ELSE pc'[p] = "answer" /\ loc'[p].why = "code_not_found"
          /\ Leaves(p, "revoke_update") =>
               /\ pc'[p] = "answer"
               /\ loc'[p].why = "revoked"
               /\ DOMAIN keys' = DOMAIN keys
               /\ keys'[code].status = "revoked"
               /\ keys'[code].assigned_user_id = keys[code].assigned_user_id
               /\ keys'[code].claimed_at = keys[code].claimed_at
               /\ keys'[code].product_id = keys[code].product_id
               /\ keys'[code].created_at = keys[code].created_at ]_vars

C13_Witness ==
    \E p \in Procs :
        /\ pc[p] = "answer"
        /\ loc[p].cmd = "revoke"
        /\ loc[p].why = "revoked"
        /\ keys[loc[p].code].status = "revoked"
        /\ keys[loc[p].code].assigned_user_id # None
        /\ keys[loc[p].code].claimed_at # NullText

\* C14. A /start with a code that has no row logs (rejected, code_not_found)
\* and answers; no step of it creates a row or changes one.
C14_UnknownCodeRejected ==
    [][ \A p \in Visitors :
          /\ (Leaves(p, "get_key") /\ ~ HasKey(loc[p].code)) =>
               /\ pc'[p] = "log_not_found"
               /\ keys' = keys
          /\ Leaves(p, "log_not_found") =>
               /\ pc'[p] = "answer"
               /\ keys' = keys
               /\ loc'[p].trail =
                    << <<"attempt", "start_param">>, <<"rejected", "code_not_found">> >>
               /\ access_logs' = access_logs (+) SetToBag(
                    {LogEntry(p, loc[p].code, "rejected", "code_not_found")}) ]_vars

C14_Witness ==
    \E p \in Visitors :
        /\ pc[p] = "answer"
        /\ StartAttempt(p)
        /\ loc[p].why = "code_not_found"
        /\ ~ HasKey(loc[p].code)
        /\ keys # << >>
        /\ Len(loc[p].trail) = 2

\* C15. A step of a /start or /revoke handler working on code c leaves the
\* row of every other code as it was and creates no row, and what a claim on
\* c decides is a function of the row of c alone.
C15_OtherCodesUntouched ==
    [][ \A p \in Procs :
          (pc'[p] # pc[p] /\ loc[p].cmd \in {"start", "revoke"}) =>
             /\ DOMAIN keys' = DOMAIN keys
             /\ \A c \in DOMAIN keys \ {loc[p].code} : keys'[c] = keys[c]
             /\ Leaves(p, "claim_select") =>
                  loc'[p].why = ClaimDecision(RowOf(loc[p].code), p) ]_vars

C15_Witness ==
    \E p \in Procs, c \in DOMAIN keys :
        /\ pc[p] = "answer"
        /\ loc[p].cmd = "revoke"
        /\ loc[p].why = "revoked"
        /\ c # loc[p].code
        /\ keys[loc[p].code].status = "revoked"
        /\ keys[c].status = "claimed"

\* C16 as stated. When the invite link is created for a code, in the /start
\* flow or the /access flow, the stored status of the code is not revoked,
\* whatever a concurrent /revoke does.
C16_NoInviteWhileRevoked ==
    [][ \A p \in Visitors :
          (pc[p] = "invite" /\ pc'[p] = "log_invite") =>
             keys[loc[p].code].status # "revoked" ]_vars

\* C16 as amended. When a handler decides to issue the invite (the claim
\* returned True, or the /access query returned a row), the stored row of the
\* code is claimed and owned by the requester; the link is created in a later
\* step, and a /revoke that commits in between does not stop it.
C16_InviteDecidedOnClaimed ==
    [][ \A p \in Visitors :
          (pc[p] # "invite" /\ pc'[p] = "invite") =>
             /\ keys'[loc'[p].code].status = "claimed"
             /\ keys'[loc'[p].code].assigned_user_id = p ]_vars

C16_Witness ==
    \E p \in Visitors :
        /\ pc[p] = "invite"
        /\ keys[loc[p].code].status = "revoked"
        /\ keys[loc[p].code].assigned_user_id = p
        /\ loc[p].code \in revoked_ok

\* The invite_created entries of access_logs.
InviteLogged ==
    { e \in BagToSet(access_logs) : e.action = "invite_created" }

\* C17. All invite_created entries that name one code are for one identity.
C17_OneIdentityPerCode ==
    \A e1, e2 \in InviteLogged : e1.code = e2.code => e1.user_id = e2.user_id

\* C18. A row with status new has no owner and no claimed_at; a row with
\* status claimed has an owner and a claimed_at; a revoked row may have an
\* owner or none.
C18_RecordConsistency ==
    \A c \in DOMAIN keys :
        /\ keys[c].status \in {"new", "claimed", "revoked"}
        /\ keys[c].status = "new" =>
             keys[c].assigned_user_id = None /\ keys[c].claimed_at = NullText
        /\ keys[c].status = "claimed" =>
             keys[c].assigned_user_id # None /\ keys[c].claimed_at # NullText

C18_Witness ==
    \E c, d \in DOMAIN keys :
        /\ keys[c].status = "claimed"
        /\ keys[c].assigned_user_id \in Visitors
        /\ keys[d].status = "revoked"
        /\ keys[d].assigned_user_id = None

\* C19. Every step of a /gen or /revoke handler whose sender is not in ADMINS
\* leaves nfc_keys as it is: the handler answers and returns.
C19_AdminGating ==
    [][ \A p \in Procs \ admins :
          (pc'[p] # pc[p] /\ (loc[p].cmd \in {"gen", "revoke"}
                               \/ loc'[p].cmd \in {"gen", "revoke"})) =>
             /\ keys' = keys
             /\ pc'[p] \in {"answer", "idle"} ]_vars

C19_Witness ==
    \E p \in Procs \ admins :
        /\ pc[p] = "answer"
        /\ loc[p].cmd = "revoke"
        /\ HasKey(loc[p].code)
        /\ keys[loc[p].code].status # "revoked"

====
